---- MODULE Spec2Model ----
(***************************************************************************)
(* A model of the incremental JSON decoder of brackendawson/json           *)
(* (src/json.go, with the error types of src/unnamed/part_005).            *)
(*                                                                         *)
(* A byte is a one-character string; the backspace byte, which has no      *)
(* TLA+ escape, is written "BS".  The byte source is the sequence `in`     *)
(* followed for ever by `srcEnd` (io.EOF, or an I/O error of the source).  *)
(* The decoder is the record `dec`: the bufio cursor, the decoder's own    *)
(* offset and whether bufio holds a byte that can be unread.  Every reader *)
(* of the source is an operator from a decoder record (and a destination   *)
(* slot) to a result record [d, err, val]: the decoder afterwards, the     *)
(* error returned and the content of the destination slot afterwards.      *)
(* A run-time panic of the Go code is the error kind "panic".              *)
(***************************************************************************)
EXTENDS Integers, Sequences, FiniteSets, TLC

VARIABLES
  in,      \* the bytes the source delivers before it ends
  srcEnd,  \* how the source ends: "EOF" or "ERR" (an error of the source)
  dests,   \* the destinations the calling program passes to Decode
  shape,   \* how the producer built the stream (kind "bytes": arbitrary bytes)
  dec,     \* the Decoder: cursor of bufio, offset, and the accounting of reads
           \* (reads that returned a byte, reads that failed, pushbacks)
  last,    \* the last call of Decode: its destination, the decoder before, the outcome
  ncalls,  \* the number of Decode calls made on the decoder
  allDyn   \* every call so far had a fresh dynamic destination

vars == <<in, srcEnd, dests, shape, dec, last, ncalls, allDyn>>

----------------------------------------------------------------------------
(* Bytes *)

BS == "BS"

Digits == {"0", "1", "2", "3", "4", "5", "6", "7", "8", "9"}

Whitespace == {" ", "\t", "\r", "\n"}

invalidS == {BS, "\f", "\n", "\r", "\t"}

escapable ==
  [c \in {"b", "f", "n", "r", "t", "\\", "\""} |->
     CASE c = "b" -> BS
       [] c = "f" -> "\f"
       [] c = "n" -> "\n"
       [] c = "r" -> "\r"
       [] c = "t" -> "\t"
       [] c = "\\" -> "\\"
       [] c = "\"" -> "\""]

boolMap == [c \in {"t", "f"} |-> c = "t"]

endOf ==
  [c \in {"t", "f", "n"} |->
     CASE c = "t" -> <<"r", "u", "e">>
       [] c = "f" -> <<"a", "l", "s", "e">>
       [] c = "n" -> <<"u", "l", "l">>]

----------------------------------------------------------------------------
(* Errors *)

NoErr == [kind |-> "nil"]

ErrEOF == [kind |-> "EOF"]

ErrUnexpectedEOF == [kind |-> "UnexpectedEOF"]

ErrSource == [kind |-> "SourceError"]

ErrInvalidUnreadByte == [kind |-> "InvalidUnreadByte"]

\* A run-time panic of reflect: the call does not return an error value.
Panic(msg) == [kind |-> "panic", msg |-> msg]

InvalidUnmarshalError(t) == [kind |-> "InvalidUnmarshalError", t |-> t]

\* msg is the format followed by its arguments
syntaxErrorf(d, format, args) ==
  [kind |-> "SyntaxError", msg |-> <<format>> \o args, offset |-> d.offset]

unmarshalTypeError(d, value, t) ==
  [kind |-> "UnmarshalTypeError", value |-> value, t |-> t, offset |-> d.offset]

\* every error of a read reported as an unexpected end
eofToUnexpectedOfAny(err) == ErrUnexpectedEOF

\* if err == io.EOF { return io.ErrUnexpectedEOF }; return err
eofToUnexpected(err) == IF err = ErrEOF THEN ErrUnexpectedEOF ELSE err

----------------------------------------------------------------------------
(* Go types and values of destinations *)

UintKinds == {"Uint", "Uint8", "Uint16", "Uint32", "Uint64"}

IntKinds == {"Int", "Int8", "Int16", "Int32", "Int64"}

FloatKinds == {"Float32", "Float64"}

TInterface == [kind |-> "Interface"]

TBool == [kind |-> "Bool"]

TString == [kind |-> "String"]

TNum(k) == [kind |-> k]

TSlice(e) == [kind |-> "Slice", elem |-> e]

TArray(n, e) == [kind |-> "Array", len |-> n, elem |-> e]

\* map[string]interface{}
TMap == [kind |-> "Map"]

Nil == [k |-> "nil"]

VBool(b) == [k |-> "bool", b |-> b]

VString(s) == [k |-> "string", s |-> s]

VInt(i) == [k |-> "int", i |-> i]

VFloat(f) == [k |-> "float64", f |-> f]

VSlice(a) == [k |-> "slice", a |-> a]

VArray(a) == [k |-> "array", a |-> a]

VMap(m) == [k |-> "map", m |-> m]

EmptyMap == << >>

Float(neg, mant, exp) == [neg |-> neg, mant |-> mant, exp |-> exp]

FloatZero == Float(FALSE, 0, 0)

RECURSIVE Zero(_)
\* reflect.New(t).Elem(): the zero value of a type
Zero(t) ==
  CASE t.kind = "Interface" -> Nil
    [] t.kind = "Bool" -> VBool(FALSE)
    [] t.kind = "String" -> VString(<< >>)
    [] t.kind \in UintKinds \cup IntKinds -> VInt(0)
    [] t.kind \in FloatKinds -> VFloat(FloatZero)
    [] t.kind = "Slice" -> VSlice(<< >>)
    [] t.kind = "Array" -> VArray([i \in 1..t.len |-> Zero(t.elem)])
    [] t.kind = "Map" -> Nil

\* A destination slot: what a non-nil pointer points to.
Slot(t, val) == [t |-> t, val |-> val]

----------------------------------------------------------------------------
(* The byte cursor *)

Res(d, err, val) == [d |-> d, err |-> err, val |-> val]

\* bufio.Reader.ReadByte over the source: the next byte, or the source's end
\* (io.EOF or its own error), which leaves the cursor where it is.
srcReadByte(d) ==
  IF d.pos < Len(in)
    THEN [d |-> [d EXCEPT !.pos = @ + 1, !.lastByte = TRUE],
          c |-> in[d.pos + 1], err |-> NoErr]
    ELSE [d |-> d, c |-> "", err |-> IF srcEnd = "EOF" THEN ErrEOF ELSE ErrSource]

\* bufio.Reader.UnreadByte: only the byte of the last successful ReadByte.
srcUnreadByte(d) ==
  IF d.lastByte /\ d.pos > 0
    THEN [d |-> [d EXCEPT !.pos = @ - 1, !.lastByte = FALSE], err |-> NoErr]
    ELSE [d |-> d, err |-> ErrInvalidUnreadByte]

\* r: what d.in.ReadByte() returned
\* a readByte that counts the read before it looks at the error
readByteOfCountsFirst(r) ==
  [d |-> [r.d EXCEPT !.offset = @ + 1, !.reads = @ + 1], c |-> r.c, err |-> r.err]

\* r: what d.in.ReadByte() returned
readByteOf(r) ==
  IF r.err # NoErr
    THEN [d |-> [r.d EXCEPT !.fails = @ + 1], c |-> "", err |-> r.err]
    ELSE [d |-> [r.d EXCEPT !.offset = @ + 1, !.reads = @ + 1], c |-> r.c, err |-> NoErr]

readByte(d) == readByteOf(srcReadByte(d))

\* r: what d.in.UnreadByte() returned
unreadByteOf(r) ==
  IF r.err # NoErr
    THEN [d |-> r.d, err |-> r.err]
    ELSE [d |-> [r.d EXCEPT !.offset = @ - 1, !.unreads = @ + 1], err |-> NoErr]

unreadByte(d) == unreadByteOf(srcUnreadByte(d))

\* r: what d.readByte() returned
\* unEscape returning the byte after the backslash itself
unEscapeOfKeepsByte(r) ==
  IF r.err # NoErr
    THEN [d |-> r.d, c |-> "", err |-> r.err]
    ELSE IF r.c \notin DOMAIN escapable
      THEN [d |-> r.d, c |-> "",
            err |-> syntaxErrorf(r.d, "invalid character %q in string escape code", <<r.c>>)]
      ELSE [d |-> r.d, c |-> r.c, err |-> NoErr]

unEscapeOf(r) ==
  IF r.err # NoErr
    THEN [d |-> r.d, c |-> "", err |-> r.err]
    ELSE IF r.c \notin DOMAIN escapable
      THEN [d |-> r.d, c |-> "",
            err |-> syntaxErrorf(r.d, "invalid character %q in string escape code", <<r.c>>)]
      ELSE [d |-> r.d, c |-> escapable[r.c], err |-> NoErr]

unEscape(d) == unEscapeOf(readByte(d))

----------------------------------------------------------------------------
(* strconv.ParseFloat on the literals the readers build, and conversions *)

DigitVal(c) ==
  CASE c = "0" -> 0 [] c = "1" -> 1 [] c = "2" -> 2 [] c = "3" -> 3
    [] c = "4" -> 4 [] c = "5" -> 5 [] c = "6" -> 6 [] c = "7" -> 7
    [] c = "8" -> 8 [] c = "9" -> 9

RECURSIVE ScanDigits(_, _)
\* the index just after the run of digits of s that starts at index i
ScanDigits(s, i) ==
  IF i <= Len(s) /\ s[i] \in Digits THEN ScanDigits(s, i + 1) ELSE i

RECURSIVE NatOf(_)
\* the value of a run of decimal digits
NatOf(s) ==
  IF s = << >> THEN 0
  ELSE 10 * NatOf(SubSeq(s, 1, Len(s) - 1)) + DigitVal(s[Len(s)])

RECURSIVE Pow10(_)
Pow10(n) == IF n <= 0 THEN 1 ELSE 10 * Pow10(n - 1)

RECURSIVE Canon(_, _, _)
\* the double mant * 10^exp, written with the shortest mantissa
Canon(neg, mant, exp) ==
  IF mant = 0 THEN Float(neg, 0, 0)
  ELSE IF mant % 10 = 0 THEN Canon(neg, mant \div 10, exp + 1)
  ELSE Float(neg, mant, exp)

\* the exponent part: s[i2] is where the mantissa (the digits at i0..i1-1 and
\* at f0..i2-1) ends, e0 where the digits of the exponent start, i3 where they end
ParseFloatExp(s, i0, i1, f0, i2, hasExp, e0, i3) ==
  IF (i1 - i0) + (i2 - f0) > 0 /\ (~hasExp \/ i3 > e0) /\ i3 = Len(s) + 1
    THEN Canon(s[1] = "-",
               NatOf(SubSeq(s, i0, i1 - 1) \o SubSeq(s, f0, i2 - 1)),
               (IF hasExp
                  THEN (IF s[e0 - 1] = "-" THEN 0 - NatOf(SubSeq(s, e0, i3 - 1))
                        ELSE NatOf(SubSeq(s, e0, i3 - 1)))
                  ELSE 0) - (i2 - f0))
    ELSE FloatZero

ParseFloatMant(s, i0, i1, f0, i2, hasExp, e0) ==
  ParseFloatExp(s, i0, i1, f0, i2, hasExp, e0, IF hasExp THEN ScanDigits(s, e0) ELSE i2)

ParseFloatFrac(s, i0, i1, f0, i2) ==
  ParseFloatMant(s, i0, i1, f0, i2,
                 i2 <= Len(s) /\ s[i2] \in {"e", "E"},
                 IF i2 + 1 <= Len(s) /\ s[i2 + 1] \in {"+", "-"} THEN i2 + 2 ELSE i2 + 1)

ParseFloatDot(s, i0, i1, f0) == ParseFloatFrac(s, i0, i1, f0, ScanDigits(s, f0))

ParseFloatInt(s, i0, i1) ==
  ParseFloatDot(s, i0, i1, IF i1 <= Len(s) /\ s[i1] = "." THEN i1 + 1 ELSE i1)

ParseFloatSign(s, i0) == ParseFloatInt(s, i0, ScanDigits(s, i0))

\* strconv.ParseFloat(s, 64) with its error dropped: a text that is not wholly
\* [sign] digits [. digits] [(e|E) [sign] digits], with a digit in the mantissa
\* and a digit in the exponent, is a syntax error, for which ParseFloat returns 0.
ParseFloat(s) ==
  ParseFloatSign(s, IF Len(s) > 0 /\ s[1] \in {"+", "-"} THEN 2 ELSE 1)

\* int64(num), uint64(num): the conversion truncates toward zero
TruncFloat(f) ==
  IF f.neg
    THEN 0 - (IF f.exp >= 0 THEN f.mant * Pow10(f.exp) ELSE f.mant \div Pow10(0 - f.exp))
    ELSE (IF f.exp >= 0 THEN f.mant * Pow10(f.exp) ELSE f.mant \div Pow10(0 - f.exp))

Bits(kind) ==
  CASE kind \in {"Uint8", "Int8"} -> 8
    [] kind \in {"Uint16", "Int16"} -> 16
    [] kind \in {"Uint32", "Int32"} -> 32
    [] OTHER -> 64

RECURSIVE Pow2(_)
Pow2(n) == IF n <= 0 THEN 1 ELSE 2 * Pow2(n - 1)

\* reflect.Value.SetUint: the value is stored in the width of the destination.
\* The literals of the model stay below 2^31, so only the 8 and 16 bit
\* destinations can wrap.
SetUint(kind, x) ==
  VInt(IF Bits(kind) <= 16 THEN x % Pow2(Bits(kind)) ELSE x)

\* reflect.Value.SetInt: the value is stored in the width of the destination
SetInt(kind, x) ==
  VInt(IF Bits(kind) > 16 THEN x
       ELSE IF x % Pow2(Bits(kind)) >= Pow2(Bits(kind) - 1)
         THEN (x % Pow2(Bits(kind))) - Pow2(Bits(kind))
         ELSE x % Pow2(Bits(kind)))

\* readUint's commit with the signed kinds stored through SetUint
commitUintAllUnsigned(d, num, v) ==
  CASE v.t.kind = "Interface" -> Res(d, NoErr, VFloat(num))
    [] v.t.kind \in UintKinds \cup IntKinds ->
         Res(d, NoErr, SetUint(v.t.kind, TruncFloat(num)))
    [] v.t.kind \in FloatKinds -> Res(d, NoErr, VFloat(num))
    [] OTHER -> Res(d, unmarshalTypeError(d, <<"number">>, v.t), v.val)

\* the commit of a plain (no fraction, no exponent) unsigned literal
commitUint(d, num, v) ==
  CASE v.t.kind = "Interface" -> Res(d, NoErr, VFloat(num))
    [] v.t.kind \in UintKinds -> Res(d, NoErr, SetUint(v.t.kind, TruncFloat(num)))
    [] v.t.kind \in IntKinds -> Res(d, NoErr, SetInt(v.t.kind, TruncFloat(num)))
    [] v.t.kind \in FloatKinds -> Res(d, NoErr, VFloat(num))
    [] OTHER -> Res(d, unmarshalTypeError(d, <<"number">>, v.t), v.val)

\* readInt's commit with the unsigned kinds stored through SetUint
commitIntIntoUnsigned(d, rawNumber, num, v) ==
  CASE v.t.kind = "Interface" -> Res(d, NoErr, VFloat(num))
    [] v.t.kind \in UintKinds -> Res(d, NoErr, SetUint(v.t.kind, TruncFloat(num)))
    [] v.t.kind \in IntKinds -> Res(d, NoErr, SetInt(v.t.kind, TruncFloat(num)))
    [] v.t.kind \in FloatKinds -> Res(d, NoErr, VFloat(num))
    [] OTHER -> Res(d, unmarshalTypeError(d, <<"number">>, v.t), v.val)

\* the commit of a plain negative literal; rawNumber is the text after the '-'.
\* The text of the error is "number -" followed by rawNumber, byte by byte.
commitInt(d, rawNumber, num, v) ==
  CASE v.t.kind = "Interface" -> Res(d, NoErr, VFloat(num))
    [] v.t.kind \in UintKinds ->
         Res(d, unmarshalTypeError(d, <<"number ", "-">> \o rawNumber, v.t), v.val)
    [] v.t.kind \in IntKinds -> Res(d, NoErr, SetInt(v.t.kind, TruncFloat(num)))
    [] v.t.kind \in FloatKinds -> Res(d, NoErr, VFloat(num))
    [] OTHER -> Res(d, unmarshalTypeError(d, <<"number">>, v.t), v.val)

\* readFloat's commit with the integer kinds given the truncated value
commitFloatTruncates(d, b, num, v) ==
  CASE v.t.kind = "Interface" -> Res(d, NoErr, VFloat(num))
    [] v.t.kind \in UintKinds -> Res(d, NoErr, SetUint(v.t.kind, TruncFloat(num)))
    [] v.t.kind \in IntKinds -> Res(d, NoErr, SetInt(v.t.kind, TruncFloat(num)))
    [] v.t.kind \in FloatKinds -> Res(d, NoErr, VFloat(num))
    [] OTHER -> Res(d, unmarshalTypeError(d, <<"number">>, v.t), v.val)

\* the commit of a literal with a fraction or an exponent
commitFloat(d, b, num, v) ==
  CASE v.t.kind = "Interface" -> Res(d, NoErr, VFloat(num))
    [] v.t.kind \in UintKinds \cup IntKinds ->
         Res(d, unmarshalTypeError(d, <<"number ">> \o b, v.t), v.val)
    [] v.t.kind \in FloatKinds -> Res(d, NoErr, VFloat(num))
    [] OTHER -> Res(d, unmarshalTypeError(d, <<"number">>, v.t), v.val)

----------------------------------------------------------------------------
(* The leaf readers.  A loop of the source is an operator Loop(d, ...) that   *)
(* reads a byte and hands what readByte returned to its body LoopOf(r, ...).  *)

RECURSIVE readStringLoop(_, _, _)

\* u: what unEscape returned
readStringEscaped(u, buf, v) ==
  IF u.err # NoErr THEN Res(u.d, u.err, v.val)
  ELSE readStringLoop(u.d, Append(buf, u.c), v)

readStringOf(r, buf, v) ==
  CASE r.err # NoErr -> Res(r.d, eofToUnexpected(r.err), v.val)
    [] r.err = NoErr /\ r.c = "\"" ->
         IF v.t.kind # "String" /\ v.t.kind # "Interface"
           THEN Res(r.d, unmarshalTypeError(r.d, <<"string">>, v.t), v.val)
           ELSE Res(r.d, NoErr, VString(buf))
    [] r.err = NoErr /\ r.c = "\\" -> readStringEscaped(unEscape(r.d), buf, v)
    [] OTHER ->
         IF r.c \in invalidS
           THEN Res(r.d, syntaxErrorf(r.d, "invalid character %q in string literal", <<r.c>>),
                    v.val)
           ELSE readStringLoop(r.d, Append(buf, r.c), v)

readStringLoop(d, buf, v) == readStringOf(readByte(d), buf, v)

readString(d, v) == readStringLoop(d, << >>, v)

RECURSIVE readLiteralTail(_, _, _, _)

readLiteralTailOf(r, b, i, what) ==
  IF r.err # NoErr THEN Res(r.d, eofToUnexpected(r.err), Nil)
  ELSE IF r.c # endOf[b][i]
    THEN Res(r.d, syntaxErrorf(r.d, "invalid character %q in literal %v (expecting %q)",
                               <<r.c, what, endOf[b][i]>>), Nil)
    ELSE readLiteralTail(r.d, b, i + 1, what)

\* for i := range endOf[b]: the bytes after the first byte of true, false, null
readLiteralTail(d, b, i, what) ==
  IF i > Len(endOf[b]) THEN Res(d, NoErr, Nil)
  ELSE readLiteralTailOf(readByte(d), b, i, what)

\* readBool storing the bool without looking at the destination's kind
readBoolOfAnyKind(r, b, v) ==
  IF r.err # NoErr THEN Res(r.d, r.err, v.val)
  ELSE Res(r.d, NoErr, VBool(boolMap[b]))

\* r: the outcome of the loop over endOf[b]
readBoolOf(r, b, v) ==
  IF r.err # NoErr THEN Res(r.d, r.err, v.val)
  ELSE IF v.t.kind # "Bool" /\ v.t.kind # "Interface"
    THEN Res(r.d, unmarshalTypeError(r.d, <<"bool">>, v.t), v.val)
    ELSE Res(r.d, NoErr, VBool(boolMap[b]))

readBool(d, b, v) ==
  readBoolOf(readLiteralTail(d, b, 1, IF boolMap[b] THEN "true" ELSE "false"), b, v)

\* readNull storing the zero value of the destination's type
readNullOfZeroes(r, v) == Res(r.d, r.err, IF r.err = NoErr THEN Zero(v.t) ELSE v.val)

readNullOf(r, v) == Res(r.d, r.err, v.val)

\* readNull takes no destination: the slot keeps what it holds
readNull(d, v) == readNullOf(readLiteralTail(d, "n", 1, "null"), v)

\* u: what unreadByte returned before the loop of a number is left
floatUnread(u, b, v) ==
  IF u.err # NoErr THEN Res(u.d, u.err, v.val)
  ELSE commitFloat(u.d, b, ParseFloat(b), v)

RECURSIVE readFloatLoop(_, _, _, _, _)

readFloatOf(r, b, expo, signedExpo, v) ==
  CASE r.err = ErrEOF -> commitFloat(r.d, b, ParseFloat(b), v)
    [] r.err # NoErr /\ r.err # ErrEOF -> Res(r.d, r.err, v.val)
    [] r.err = NoErr /\ r.c \in {"e", "E"} ->
         IF expo
           THEN Res(r.d, syntaxErrorf(r.d,
                  "invalid character %q in exponent of numeric literal", <<r.c>>), v.val)
           ELSE readFloatLoop(r.d, Append(b, r.c), TRUE, signedExpo, v)
    [] r.err = NoErr /\ r.c \in {"-", "+"} ->
         IF signedExpo
           THEN Res(r.d, syntaxErrorf(r.d,
                  "invalid character %q in exponent of numeric literal", <<r.c>>), v.val)
           ELSE readFloatLoop(r.d, Append(b, r.c), expo, TRUE, v)
    [] r.err = NoErr /\ r.c \in Digits ->
         readFloatLoop(r.d, Append(b, r.c), expo, signedExpo, v)
    [] OTHER -> floatUnread(unreadByte(r.d), b, v)

readFloatLoop(d, b, expo, signedExpo, v) == readFloatOf(readByte(d), b, expo, signedExpo, v)

readFloat(d, b, e, v) ==
  readFloatLoop(d, Append(b, e), e \in {"e", "E"}, FALSE, v)

\* a readUint that looks at the byte after the number once more
uintUnreadReadsAgain(u, rawNumber, v) ==
  IF u.err # NoErr THEN Res(u.d, u.err, v.val)
  ELSE commitUint(unreadByte(readByte(u.d).d).d, ParseFloat(rawNumber), v)

\* u: what unreadByte returned before the loop of a number is left
uintUnread(u, rawNumber, v) ==
  IF u.err # NoErr THEN Res(u.d, u.err, v.val)
  ELSE commitUint(u.d, ParseFloat(rawNumber), v)

RECURSIVE readUintLoop(_, _, _)

readUintOf(r, rawNumber, v) ==
  CASE r.err = ErrEOF -> commitUint(r.d, ParseFloat(rawNumber), v)
    [] r.err # NoErr /\ r.err # ErrEOF -> Res(r.d, r.err, v.val)
    [] r.err = NoErr /\ r.c \in {".", "e", "E"} -> readFloat(r.d, rawNumber, r.c, v)
    [] r.err = NoErr /\ r.c \notin Digits \cup {".", "e", "E"} ->
         uintUnread(unreadByte(r.d), rawNumber, v)
    [] OTHER ->
         \* Number must be minimally encoded: the loop is left with the digit
         \* that follows the 0 already read
         IF rawNumber[1] = "0" THEN commitUint(r.d, ParseFloat(rawNumber), v)
         ELSE readUintLoop(r.d, Append(rawNumber, r.c), v)

readUintLoop(d, rawNumber, v) == readUintOf(readByte(d), rawNumber, v)

readUint(d, b, v) == readUintLoop(d, <<b>>, v)

\* a readInt that pushes back a second time
intUnreadTwice(u, rawNumber, v) ==
  IF u.err # NoErr THEN Res(u.d, u.err, v.val)
  ELSE Res(u.d, unreadByte(u.d).err, v.val)

\* u: what unreadByte returned before the loop of a number is left
intUnread(u, rawNumber, v) ==
  IF u.err # NoErr THEN Res(u.d, u.err, v.val)
  ELSE commitInt(u.d, rawNumber, ParseFloat(<<"-">> \o rawNumber), v)

RECURSIVE readIntLoop(_, _, _, _)

readIntOf(r, rawNumber, expectEOF, v) ==
  CASE r.err = ErrEOF ->
         IF expectEOF THEN commitInt(r.d, rawNumber, ParseFloat(<<"-">> \o rawNumber), v)
         ELSE Res(r.d, ErrUnexpectedEOF, v.val)
    [] r.err # NoErr /\ r.err # ErrEOF -> Res(r.d, r.err, v.val)
    [] r.err = NoErr /\ r.c \in {".", "e", "E"} ->
         IF Len(rawNumber) = 0
           THEN Res(r.d, syntaxErrorf(r.d,
                  "invalid character '.' in numeric literal", << >>), v.val)
           ELSE readFloat(r.d, <<"-">> \o rawNumber, r.c, v)
    [] r.err = NoErr /\ r.c \notin Digits \cup {".", "e", "E"} ->
         IF Len(rawNumber) = 0
           THEN Res(r.d, syntaxErrorf(r.d,
                  "invalid character %q in numeric literal", <<r.c>>), v.val)
           ELSE intUnread(unreadByte(r.d), rawNumber, v)
    [] OTHER ->
         \* Number must be minimally encoded
         IF Len(rawNumber) > 0 /\ rawNumber[1] = "0"
           THEN commitInt(r.d, rawNumber, ParseFloat(<<"-">> \o rawNumber), v)
           ELSE readIntLoop(r.d, Append(rawNumber, r.c), TRUE, v)

readIntLoop(d, rawNumber, expectEOF, v) == readIntOf(readByte(d), rawNumber, expectEOF, v)

readInt(d, v) == readIntLoop(d, << >>, FALSE, v)

----------------------------------------------------------------------------
(* The value dispatcher and the composite readers *)

RECURSIVE readValue(_, _, _), readArrayLoop(_, _, _, _, _, _),
          readObjectLoop(_, _, _, _, _), readObjectKey(_, _), readObjectSeparator(_)

\* r: what readString returned for the key
objectKeyString(r) ==
  IF r.err # NoErr THEN Res(r.d, r.err, << >>) ELSE Res(r.d, NoErr, r.val.s)

objectKeySpace(r) ==
  IF r.err # NoErr THEN Res(r.d, r.err, << >>) ELSE readObjectKey(r.d, r.c)

\* the result's val is the key
readObjectKey(d, c) ==
  CASE c = "\"" -> objectKeyString(readString(d, Slot(TString, VString(<< >>))))
    [] c \in Whitespace -> objectKeySpace(readByte(d))
    [] OTHER ->
         Res(d, syntaxErrorf(d,
               "invalid character %q looking for beginning of object key string", <<c>>),
             << >>)

readObjectSeparatorOf(r) ==
  CASE r.err # NoErr -> [d |-> r.d, err |-> eofToUnexpected(r.err)]
    [] r.err = NoErr /\ r.c = ":" -> [d |-> r.d, err |-> NoErr]
    [] r.err = NoErr /\ r.c \in Whitespace -> readObjectSeparator(r.d)
    [] OTHER -> [d |-> r.d,
                 err |-> syntaxErrorf(r.d, "invalid character %q after object key", <<r.c>>)]

readObjectSeparator(d) == readObjectSeparatorOf(readByte(d))

ZeroValuePanic == Panic("reflect: call of reflect.Value.Elem on zero Value")

\* a map store that keeps the entry a key already has
SetMapIndexKeepsFirst(obj, key, val) ==
  [ok |-> TRUE,
   m |-> [x \in (DOMAIN obj.m) \cup {key} |-> IF x \in DOMAIN obj.m THEN obj.m[x] ELSE val]]

\* obj.Elem().SetMapIndex(reflect.ValueOf(key), val.Elem())
SetMapIndex(obj, key, val) ==
  [ok |-> TRUE,
   m |-> [x \in (DOMAIN obj.m) \cup {key} |-> IF x = key THEN val ELSE obj.m[x]]]

\* v.Elem().Set(obj.Elem()) after the loop: obj is the zero Value unless the
\* destination is an interface
objectSet(d, obj, v) ==
  IF obj.ok THEN Res(d, NoErr, VMap(obj.m)) ELSE Res(d, ZeroValuePanic, v.val)

\* r: the byte read after a pair, or after a whitespace byte
objectNext(r, obj, firstKey, v) ==
  IF r.err # NoErr THEN Res(r.d, eofToUnexpected(r.err), v.val)
  ELSE readObjectLoop(r.d, r.c, obj, firstKey, v)

\* e: what readValue returned for the value of the pair
objectValue(e, key, obj, v) ==
  IF e.err # NoErr THEN Res(e.d, e.err, v.val)
  ELSE IF ~obj.ok THEN Res(e.d, ZeroValuePanic, v.val)
  ELSE objectNext(readByte(e.d), SetMapIndex(obj, key, e.val), FALSE, v)

\* r: the first byte of the value
objectValueByte(r, key, obj, v) ==
  IF r.err # NoErr THEN Res(r.d, eofToUnexpected(r.err), v.val)
  ELSE objectValue(readValue(r.d, r.c, Slot(TInterface, Nil)), key, obj, v)

\* s: what readObjectSeparator returned
objectSeparator(s, key, obj, v) ==
  IF s.err # NoErr THEN Res(s.d, s.err, v.val)
  ELSE objectValueByte(readByte(s.d), key, obj, v)

\* k: what readObjectKey returned
objectKey(k, obj, v) ==
  IF k.err # NoErr THEN Res(k.d, k.err, v.val)
  ELSE objectSeparator(readObjectSeparator(k.d), k.val, obj, v)

\* r: the byte read after '{' or ','
objectPair(r, obj, firstKey, v) ==
  IF r.err # NoErr THEN Res(r.d, eofToUnexpected(r.err), v.val)
  ELSE IF firstKey /\ r.c = "}" THEN objectSet(r.d, obj, v)
  ELSE objectKey(readObjectKey(r.d, r.c), obj, v)

\* obj is the map under construction, [ok |-> FALSE] when the destination is
\* not an interface (the reflect.Value obj is then the zero Value)
readObjectLoop(d, c, obj, firstKey, v) ==
  CASE c \in {",", "{"} -> objectPair(readByte(d), obj, firstKey, v)
    [] c \in Whitespace -> objectNext(readByte(d), obj, firstKey, v)
    [] c = "}" -> objectSet(d, obj, v)
    [] OTHER ->
         Res(d, syntaxErrorf(d, "invalid character %q after object key:value pair", <<c>>),
             v.val)

readObject(d, c, v) ==
  readObjectLoop(d, c,
                 IF v.t.kind = "Interface" THEN [ok |-> TRUE, m |-> EmptyMap]
                 ELSE [ok |-> FALSE],
                 TRUE, v)

\* a readArray that builds the array of an interface destination in the
\* destination itself
arrayPartialInPlace(v, a) ==
  CASE v.t.kind = "Array" -> VArray(a)
    [] OTHER -> VSlice(a)

\* what the destination holds when readArray returns early with the elements
\* a: a slice or array destination is written in place, an interface
\* destination only by the final Set
arrayPartial(v, a) ==
  CASE v.t.kind = "Slice" -> VSlice(a)
    [] v.t.kind = "Array" -> VArray(a)
    [] OTHER -> v.val

\* a readArray that clears the slots of an array after the last element
arraySetClearsRest(d, v, a, i) ==
  Res(d, NoErr,
      IF v.t.kind = "Array"
        THEN VArray([j \in 1..Len(a) |-> IF j <= i THEN a[j] ELSE Zero(v.t.elem)])
        ELSE VSlice(SubSeq(a, 1, i)))

\* arr.Elem().SetLen(i) for a slice, then v.Elem().Set(arr.Elem())
arraySet(d, v, a, i) ==
  Res(d, NoErr, IF v.t.kind = "Array" THEN VArray(a) ELSE VSlice(SubSeq(a, 1, i)))

\* the type of the elements of arr
arrayElemType(v) == IF v.t.kind = "Interface" THEN TInterface ELSE v.t.elem

\* r: the byte read after an element, or after a whitespace byte
arrayNext(r, a, i, firstElem, v) ==
  IF r.err # NoErr THEN Res(r.d, eofToUnexpected(r.err), arrayPartial(v, a))
  ELSE readArrayLoop(r.d, r.c, a, i, firstElem, v)

\* e: what readValue returned for the element; a: the elements with e.val stored
arrayElemDone(e, a, i, v) ==
  IF e.err # NoErr THEN Res(e.d, e.err, arrayPartial(v, a))
  ELSE arrayNext(readByte(e.d), a, i + 1, FALSE, v)

\* e: what readValue returned for the element read into slot i of a, or into a
\* discarded slot when the array destination is full
arrayElemStore(e, a, i, spill, v) ==
  arrayElemDone(e, IF spill THEN a ELSE [a EXCEPT ![i + 1] = e.val], i, v)

\* a: the elements, grown by one zero element if the slice was full
arrayElemRead(d, c, a, i, spill, v) ==
  arrayElemStore(readValue(d, c, IF spill THEN Slot(TInterface, Nil)
                                 ELSE Slot(arrayElemType(v), a[i + 1])),
                 a, i, spill, v)

\* r: the byte read after '[' or ','
arrayElem(r, a, i, firstElem, v) ==
  IF r.err # NoErr THEN Res(r.d, eofToUnexpected(r.err), arrayPartial(v, a))
  ELSE IF firstElem /\ r.c = "]" THEN arraySet(r.d, v, a, i)
  ELSE arrayElemRead(r.d, r.c,
                     IF i >= Len(a) /\ v.t.kind # "Array"
                       THEN Append(a, Zero(arrayElemType(v))) ELSE a,
                     i, i >= Len(a) /\ v.t.kind = "Array", v)

\* a: the elements of arr, i: the number of elements read so far
readArrayLoop(d, c, a, i, firstElem, v) ==
  CASE c \in {",", "["} -> arrayElem(readByte(d), a, i, firstElem, v)
    [] c \in Whitespace -> arrayNext(readByte(d), a, i, firstElem, v)
    [] c = "]" -> arraySet(d, v, a, i)
    [] OTHER ->
         Res(d, syntaxErrorf(d, "invalid character %q after array element", <<c>>),
             arrayPartial(v, a))

\* r: what the loop returned for an array read into a discarded dynamic slot
arrayLateTypeError(r, v) ==
  IF r.err # NoErr THEN Res(r.d, r.err, v.val)
  ELSE Res(r.d, unmarshalTypeError(r.d, <<"array">>, v.t), v.val)

\* readArray rejecting the destination only once the array is read
readArrayChecksLate(d, c, v) ==
  CASE v.t.kind = "Interface" -> readArrayLoop(d, c, << >>, 0, TRUE, v)
    [] v.t.kind \in {"Slice", "Array"} -> readArrayLoop(d, c, v.val.a, 0, TRUE, v)
    [] OTHER ->
         arrayLateTypeError(readArrayLoop(d, c, << >>, 0, TRUE, Slot(TInterface, Nil)), v)

readArray(d, c, v) ==
  CASE v.t.kind = "Interface" -> readArrayLoop(d, c, << >>, 0, TRUE, v)
    [] v.t.kind \in {"Slice", "Array"} -> readArrayLoop(d, c, v.val.a, 0, TRUE, v)
    [] OTHER -> Res(d, unmarshalTypeError(d, <<"array">>, v.t), v.val)

\* r: the byte read after a whitespace byte
valueSpace(r, v) ==
  IF r.err # NoErr THEN Res(r.d, r.err, v.val) ELSE readValue(r.d, r.c, v)

readValue(d, c, v) ==
  CASE c = "{" -> readObject(d, c, v)
    [] c = "[" -> readArray(d, c, v)
    [] c = "\"" -> readString(d, v)
    [] c \in {"t", "f"} -> readBool(d, c, v)
    [] c = "n" -> readNull(d, v)
    [] c \in Digits -> readUint(d, c, v)
    [] c = "-" -> readInt(d, v)
    [] c \in Whitespace -> valueSpace(readByte(d), v)
    [] OTHER ->
         Res(d, syntaxErrorf(d, "invalid character %q looking for beginning of value", <<c>>),
             v.val)

----------------------------------------------------------------------------
(* Decode *)

\* The argument of Decode: a non-nil pointer to a slot of type t holding val,
\* or one of the arguments Decode rejects: nil, a non-pointer value, a nil pointer.
PtrTo(t, val) == [how |-> "pointer", t |-> t, val |-> val]

NilArg == [how |-> "nil", t |-> [kind |-> "none"], val |-> Nil]

NonPointer(t) == [how |-> "value", t |-> t, val |-> Zero(t)]

NilPointer(t) == [how |-> "nilpointer", t |-> [kind |-> "Ptr", elem |-> t], val |-> Nil]

FreshDynamic == PtrTo(TInterface, Nil)

\* r: the first byte read
decodeFirst(r, dest) ==
  IF r.err # NoErr THEN Res(r.d, r.err, dest.val)
  ELSE readValue(r.d, r.c, Slot(dest.t, dest.val))

\* A Decode that reads the first byte before it looks at its argument.
DecodeOpReadsFirst(d, dest) ==
  IF dest.how # "pointer" THEN Res(readByte(d).d, InvalidUnmarshalError(dest.t), dest.val)
  ELSE decodeFirst(readByte(d), dest)

\* Decoder.Decode as a function of the decoder and the argument
DecodeOp(d, dest) ==
  IF dest.how # "pointer" THEN Res(d, InvalidUnmarshalError(dest.t), dest.val)
  ELSE decodeFirst(readByte(d), dest)

NewDecoder ==
  [pos |-> 0, offset |-> 0, lastByte |-> FALSE, reads |-> 0, unreads |-> 0, fails |-> 0]

MaxCalls == 3

\* r: what the call returned
Returned(dest, r) ==
  /\ dec' = r.d
  /\ last' = [op |-> "Decode", dest |-> dest, before |-> dec, err |-> r.err, val |-> r.val]

Decode(dest) ==
  /\ ncalls < MaxCalls
  /\ Returned(dest, DecodeOp(dec, dest))
  /\ ncalls' = ncalls + 1
  /\ allDyn' = (allDyn /\ dest = FreshDynamic)
  /\ UNCHANGED <<in, srcEnd, dests, shape>>

Next == \E dest \in dests : Decode(dest)

----------------------------------------------------------------------------
(* Sources and callers *)

RECURSIVE Flatten(_)
Flatten(ss) == IF ss = << >> THEN << >> ELSE Head(ss) \o Flatten(Tail(ss))

SeqsUpTo(S, n) == UNION {[1..k -> S] : k \in 0..n}

\* every concatenation of at most n of the given chunks of bytes
Texts(chunks, n) == {Flatten(ts) : ts \in SeqsUpTo(chunks, n)}

InvalidArgs == {NilArg, NonPointer(TInterface), NilPointer(TNum("Int"))}

\* a decoder constructed around one of the given sources; a source is the
\* bytes it delivers and the way the producer built them
InitWith(sources, ends, callers) ==
  /\ \E src \in sources : in = src.in /\ shape = src.shape
  /\ srcEnd \in ends
  /\ dests = callers
  /\ dec = NewDecoder
  /\ last = [op |-> "none"]
  /\ ncalls = 0
  /\ allDyn = TRUE

Source(bytes, sh) == [in |-> bytes, shape |-> sh]

MaxLen == 3

Bytes == {<<"[">>, <<"]">>, <<"1">>, <<",">>, <<" ">>, <<"\"">>}

Init ==
  InitWith({Source(t, [kind |-> "bytes"]) : t \in Texts(Bytes, MaxLen)},
           {"EOF", "ERR"},
           InvalidArgs \cup {FreshDynamic, PtrTo(TNum("Int"), VInt(0)),
                             PtrTo(TString, VString(<<"a">>))})

Spec == Init /\ [][Next]_vars

----------------------------------------------------------------------------
(* Streams of JSON values.  An item is a JSON text, as its tokens, with the   *)
(* Go value encoding/json decodes it to in an interface{} destination.        *)

Item(toks, val) == [toks |-> toks, text |-> Flatten(toks), val |-> val]

F1 == VFloat(Float(FALSE, 1, 0))

Quoted(s) == <<"\"">> \o s \o <<"\"">>

ItemOne == Item(<< <<"1">> >>, F1)

ItemZero == Item(<< <<"0">> >>, VFloat(FloatZero))

ItemMinusOne == Item(<< <<"-", "1">> >>, VFloat(Float(TRUE, 1, 0)))

ItemString == Item(<< Quoted(<<"a">>) >>, VString(<<"a">>))

ItemTrue == Item(<< <<"t", "r", "u", "e">> >>, VBool(TRUE))

ItemNull == Item(<< <<"n", "u", "l", "l">> >>, Nil)

ItemEmptyArray == Item(<< <<"[">>, <<"]">> >>, VSlice(<< >>))

ItemArray == Item(<< <<"[">>, <<"1">>, <<"]">> >>, VSlice(<<F1>>))

ItemPair ==
  Item(<< <<"[">>, <<"1">>, <<",">>, Quoted(<<"a">>), <<"]">> >>,
       VSlice(<<F1, VString(<<"a">>)>>))

ItemNested == Item(<< <<"[">>, <<"[">>, <<"]">>, <<"]">> >>, VSlice(<<VSlice(<< >>)>>))

ItemEmptyObject == Item(<< <<"{">>, <<"}">> >>, VMap(EmptyMap))

ItemObject ==
  Item(<< <<"{">>, Quoted(<<"a">>), <<":">>, <<"1">>, <<"}">> >>,
       VMap([k \in {<<"a">>} |-> F1]))

ItemObjectArray ==
  Item(<< <<"[">>, <<"{">>, <<"}">>, <<"]">> >>, VSlice(<<VMap(EmptyMap)>>))

IsNumber(item) == item.val.k = "float64"

\* the integer part of a number is the single digit 0
ZeroInt(item) == item.text \in {<<"0">>, <<"-", "0">>}

\* b written right after a is still two values: the grammar ends a after its
\* last byte (a number other than 0 would go on with the digits of b)
SelfDelimited(a, b) == ~(IsNumber(a) /\ ~ZeroInt(a) /\ IsNumber(b) /\ b.text[1] \in Digits)

\* gaps[1] chunks[1] gaps[2] chunks[2] ... gaps[k+1]
Interleave(chunks, gaps) ==
  Flatten([i \in 1..(2 * Len(chunks) + 1) |->
             IF i % 2 = 1 THEN gaps[(i + 1) \div 2] ELSE chunks[i \div 2]])

RenderStream(vs, ss) == Interleave([i \in 1..Len(vs) |-> vs[i].text], ss)

StreamShape(vs, ss) ==
  [kind |-> "values",
   vals |-> [i \in 1..Len(vs) |-> vs[i].val],
   zeroThenDigit |-> \E i \in 1..(Len(vs) - 1) :
                        /\ ZeroInt(vs[i]) /\ ss[i + 1] = << >>
                        /\ vs[i + 1].text[1] \in Digits]

StreamsOf(vs, seps) ==
  { Source(RenderStream(vs, ss), StreamShape(vs, ss)) :
      ss \in [1..(Len(vs) + 1) -> seps] }

ValueLists(items, n) ==
  { vs \in SeqsUpTo(items, n) :
      \A i \in 1..(Len(vs) - 1) : SelfDelimited(vs[i], vs[i + 1]) }

Streams(items, seps, n) == UNION { StreamsOf(vs, seps) : vs \in ValueLists(items, n) }

MaxVals == 2

StreamItems ==
  {ItemOne, ItemZero, ItemMinusOne, ItemString, ItemTrue, ItemNull, ItemArray,
   ItemEmptyObject}

InitStream ==
  InitWith(Streams(StreamItems, {<< >>, <<" ">>, <<"\n", "\t">>}, MaxVals),
           {"EOF"}, {FreshDynamic, NilArg})

SpecStream == InitStream /\ [][Next]_vars

\* destinations of every kind Decode classifies
TypedDests ==
  {FreshDynamic,
   PtrTo(TMap, Nil),
   PtrTo(TBool, VBool(FALSE)),
   PtrTo(TString, VString(<< >>)),
   PtrTo(TNum("Int"), VInt(0)),
   PtrTo(TNum("Uint8"), VInt(0)),
   PtrTo(TNum("Float64"), VFloat(FloatZero)),
   PtrTo(TArray(2, TInterface), Zero(TArray(2, TInterface))),
   PtrTo(TSlice(TInterface), Zero(TSlice(TInterface))),
   PtrTo(TSlice(TNum("Int")), Zero(TSlice(TNum("Int")))),
   PtrTo(TArray(1, TString), Zero(TArray(1, TString)))}

ObjectItems == {ItemEmptyObject, ItemObject, ItemObjectArray}

InitTyped ==
  InitWith(Streams(ObjectItems \cup {ItemOne, ItemString}, {<< >>, <<" ">>}, MaxVals),
           {"EOF"}, TypedDests)

SpecTyped == InitTyped /\ [][Next]_vars

----------------------------------------------------------------------------
(* Texts built around one place of the grammar *)

\* an array, or an object, holding one complete element, then optional
\* whitespace, then the byte x, then the rest of the text
AfterArrayElement(elem, ws, x, rest) ==
  Source(<<"[">> \o elem.text \o ws \o <<x>> \o rest,
         [kind |-> "afterElement", in |-> "array", byte |-> x])

AfterObjectPair(elem, ws, x, rest) ==
  Source(<<"{">> \o Quoted(<<"a">>) \o <<":">> \o elem.text \o ws \o <<x>> \o rest,
         [kind |-> "afterElement", in |-> "object", byte |-> x])

\* x written right after elem would be one more byte of the number elem
Continues(elem, ws, x) == IsNumber(elem) /\ ws = << >> /\ x \in Digits \cup {".", "e", "E"}

Elements == {ItemOne, ItemString, ItemTrue, ItemNull, ItemEmptyArray, ItemEmptyObject}

AfterBytes == {"[", "{", "]", "}", ":", "\"", "1", "a", "t", "-"}

AfterElementSources ==
  { AfterArrayElement(e[1], e[2], e[3], e[4]) :
      e \in { f \in Elements \X {<< >>, <<" ">>} \X (AfterBytes \ {"]"})
                     \X {<< >>, <<"1", "]">>} : ~Continues(f[1], f[2], f[3]) } }
  \cup
  { AfterObjectPair(e[1], e[2], e[3], e[4]) :
      e \in { f \in Elements \X {<< >>, <<" ">>} \X (AfterBytes \ {"}"})
                     \X {<< >>, Quoted(<<"b">>) \o <<":", "1", "}">>} :
                ~Continues(f[1], f[2], f[3]) } }

\* the tokens of an array or object text with a run of whitespace in every gap
WsRuns == {<< >>, <<" ">>, <<"\t", "\n">>, <<"\r">>}

Spaced(item) ==
  { Source(Interleave(item.toks, runs),
           [kind |-> "spaced", val |-> item.val,
            plain |-> \A i \in DOMAIN runs : runs[i] = << >>]) :
      runs \in [1..(Len(item.toks) + 1) -> WsRuns] }

Composites ==
  {ItemEmptyArray, ItemArray, ItemPair, ItemNested, ItemEmptyObject, ItemObject,
   ItemObjectArray}

InitSpaced ==
  InitWith(UNION {Spaced(item) : item \in Composites}, {"EOF"}, {FreshDynamic})

SpecSpaced == InitSpaced /\ [][Next]_vars

\* a source that ends inside a text that starts with its opening byte: after
\* at least that byte and before the last
Truncated(text, of) ==
  { Source(SubSeq(text, 1, n), [kind |-> "truncated", of |-> of]) :
      n \in 1..(Len(text) - 1) }

ItemTwoPairs ==
  Item(<< <<"{">>, Quoted(<<"a">>), <<":">>, <<"[">>, <<"t", "r", "u", "e">>, <<"]">>,
          <<",">>, Quoted(<<"b">>), <<":">>, <<"-", "1">>, <<"}">> >>,
       VMap([k \in {<<"a">>, <<"b">>} |->
               IF k = <<"a">> THEN VSlice(<<VBool(TRUE)>>)
               ELSE VFloat(Float(TRUE, 1, 0))]))

\* the tokens of the text with a space between each two
AllSpace(item) ==
  Interleave(item.toks,
             [i \in 1..(Len(item.toks) + 1) |->
                IF i \in {1, Len(item.toks) + 1} THEN << >> ELSE <<" ">>])

CompositeTexts ==
  {ItemPair.text, ItemNested.text, ItemObject.text, ItemObjectArray.text,
   ItemTwoPairs.text, AllSpace(ItemPair), AllSpace(ItemTwoPairs)}

StringTexts ==
  {Quoted(<<"a">>), Quoted(<<"a", "b">>), Quoted(<<"\\", "\"", "b">>),
   Quoted(<<"a", "\\", "n">>), Quoted(<<"\\", "\\">>)}

TruncatedSources ==
  UNION ({Truncated(t, "composite") : t \in CompositeTexts}
         \cup {Truncated(t, "string") : t \in StringTexts})

\* a number whose integer part is 0 written right before the digit c
LeadingZero(sign, c, rest) ==
  Source(sign \o <<"0", c>> \o rest,
         [kind |-> "leadingZero", zeroEnd |-> Len(sign) + 1, digit |-> c,
          next |-> VFloat(Float(FALSE, DigitVal(c), 0))])

LeadingZeroSources ==
  { LeadingZero(e[1], e[2], e[3]) :
      e \in {<< >>, <<"-">>} \X {"0", "1", "9"} \X {<< >>, <<" ">>, <<",">>} }

\* a number whose '.' or exponent marker is not followed by a digit
BadNumber(pre, int, tail, term) ==
  Source(pre \o int \o tail \o term, [kind |-> "badNumber", nested |-> pre # << >>])

BadTails ==
  {<<".">>, <<"e">>, <<"E">>, <<"e", "+">>, <<"E", "-">>, <<".", "e", "5">>,
   <<".", "5", "e">>, <<".", "5", "e", "-">>}

BadNumberSources ==
  { BadNumber(e[1], e[2], e[3], e[4]) :
      e \in {<< >>, <<"[">>} \X {<<"1">>, <<"0">>, <<"-", "1">>} \X BadTails
              \X {<< >>, <<" ">>, <<",">>, <<"]">>} }

GrammarDests ==
  {FreshDynamic, PtrTo(TString, VString(<< >>)), PtrTo(TNum("Int"), VInt(0)),
   PtrTo(TNum("Float64"), VFloat(FloatZero))}

InitGrammar ==
  InitWith(AfterElementSources \cup TruncatedSources \cup LeadingZeroSources
             \cup BadNumberSources,
           {"EOF"}, GrammarDests)

SpecGrammar == InitGrammar /\ [][Next]_vars

----------------------------------------------------------------------------
(* Number literals.  A literal is written with the double it denotes: neg,   *)
(* and mant * 10^exp with the shortest mantissa.                              *)

NumberLiteral(text, neg, mant, exp) ==
  [text |-> text, neg |-> neg, mant |-> mant, exp |-> exp,
   plain |-> \A i \in 1..Len(text) : text[i] \in Digits \cup {"-"}]

PlainLiterals ==
  {NumberLiteral(<<"1">>, FALSE, 1, 0),
   NumberLiteral(<<"0">>, FALSE, 0, 0),
   NumberLiteral(<<"1", "2">>, FALSE, 12, 0),
   NumberLiteral(<<"2", "0", "0">>, FALSE, 2, 2),
   NumberLiteral(<<"3", "0", "0">>, FALSE, 3, 2),
   NumberLiteral(<<"7", "0", "0", "0", "1">>, FALSE, 70001, 0),
   NumberLiteral(<<"-", "1">>, TRUE, 1, 0),
   NumberLiteral(<<"-", "0">>, TRUE, 0, 0),
   NumberLiteral(<<"-", "1", "2">>, TRUE, 12, 0),
   NumberLiteral(<<"-", "2", "0", "0">>, TRUE, 2, 2),
   NumberLiteral(<<"-", "7", "0", "0", "0", "1">>, TRUE, 70001, 0)}

FractionLiterals ==
  {NumberLiteral(<<"1", ".", "2">>, FALSE, 12, -1),
   NumberLiteral(<<"-", "1", ".", "2">>, TRUE, 12, -1),
   NumberLiteral(<<"1", "e", "6">>, FALSE, 1, 6),
   NumberLiteral(<<"1", "E", "2">>, FALSE, 1, 2),
   NumberLiteral(<<"1", ".", "5", "e", "1">>, FALSE, 15, 0),
   NumberLiteral(<<"1", "2", ".", "5", "0">>, FALSE, 125, -1),
   NumberLiteral(<<"-", "2", "e", "+", "1">>, TRUE, 2, 1),
   NumberLiteral(<<"0", ".", "5">>, FALSE, 5, -1),
   NumberLiteral(<<"-", "5", "0", "E", "-", "1">>, TRUE, 5, 0)}

NumberSources ==
  { Source(e[1].text \o e[2], [kind |-> "number", lit |-> e[1]]) :
      e \in (PlainLiterals \cup FractionLiterals) \X {<< >>, <<" ">>, <<",">>} }

\* destinations of every numeric kind, each holding a value no literal denotes
NumberDests ==
  {FreshDynamic}
    \cup {PtrTo(TNum(k), VInt(7)) : k \in IntKinds \cup UintKinds}
    \cup {PtrTo(TNum(k), VFloat(Float(FALSE, 7, 0))) : k \in FloatKinds}

InitNumber == InitWith(NumberSources, {"EOF"}, NumberDests)

SpecNumber == InitNumber /\ [][Next]_vars

----------------------------------------------------------------------------
(* The literal null, alone and as the elements of an array *)

NullText == <<"n", "u", "l", "l">>

NullSources ==
  { Source(e[1] \o NullText \o e[2], [kind |-> "null", form |-> "top"]) :
      e \in {<< >>, <<" ">>, <<"\n", "\t">>} \X {<< >>, <<" ">>, <<",">>, NullText} }
  \cup
  { Source(<<"[">> \o NullText \o e \o <<"]">>, [kind |-> "null", form |-> "element"]) :
      e \in {<< >>, <<" ">>, <<",">> \o NullText} }

VX == VString(<<"x">>)

\* dynamic destinations, and sequences of dynamic slots, that hold a value
HeldDynamicDests ==
  {FreshDynamic,
   PtrTo(TInterface, VX),
   PtrTo(TInterface, VFloat(Float(FALSE, 7, 0))),
   PtrTo(TSlice(TInterface), VSlice(<<VX, VX, VX>>)),
   PtrTo(TArray(2, TInterface), VArray(<<VX, VBool(TRUE)>>))}

\* destinations of every other kind, each holding a value that is not the
\* zero value of its type
HeldDests ==
  {PtrTo(TBool, VBool(TRUE)),
   PtrTo(TString, VX),
   PtrTo(TNum("Int"), VInt(7)),
   PtrTo(TNum("Uint8"), VInt(7)),
   PtrTo(TNum("Float64"), VFloat(Float(FALSE, 7, 0))),
   PtrTo(TArray(1, TString), VArray(<<VX>>)),
   PtrTo(TSlice(TNum("Int")), VSlice(<<VInt(7)>>)),
   PtrTo(TMap, VMap([k \in {<<"a">>} |-> F1]))}

InitNull == InitWith(NullSources, {"EOF"}, HeldDynamicDests \cup HeldDests)

SpecNull == InitNull /\ [][Next]_vars

----------------------------------------------------------------------------
(* Arrays of up to MaxElems elements, decoded into sequence destinations *)

ItemTwo == Item(<< <<"2">> >>, VFloat(Float(FALSE, 2, 0)))

MaxElems == 3

ElemItems == {ItemOne, ItemTwo, ItemString, ItemNull, ItemEmptyObject}

\* '[' e1 ',' e2 ... ']' with the given whitespace before each ',' and the ']'
ArrayText(items, ws) ==
  <<"[">>
    \o Flatten([i \in 1..Len(items) |->
                  (IF i = 1 THEN << >> ELSE <<",">>) \o items[i].text \o ws])
    \o <<"]">>

ArraySources ==
  { Source(ArrayText(e[1], e[2]) \o e[3],
           [kind |-> "array", items |-> e[1], end |-> Len(ArrayText(e[1], e[2]))]) :
      e \in SeqsUpTo(ElemItems, MaxElems) \X {<< >>, <<" ">>} \X {<< >>, <<",">>} }

\* fixed-capacity and growable destinations, holding values no element denotes
SequenceDests ==
  {PtrTo(TArray(2, TNum("Int")), VArray(<<VInt(7), VInt(7)>>)),
   PtrTo(TArray(2, TInterface), VArray(<<VX, VX>>)),
   PtrTo(TArray(2, TInterface), Zero(TArray(2, TInterface))),
   PtrTo(TArray(1, TString), VArray(<<VX>>)),
   PtrTo(TArray(1, TMap), Zero(TArray(1, TMap))),
   PtrTo(TSlice(TNum("Int")), VSlice(<< >>)),
   PtrTo(TSlice(TNum("Int")), VSlice(<<VInt(7), VInt(7)>>)),
   PtrTo(TSlice(TNum("Int")), VSlice(<<VInt(7), VInt(7), VInt(7), VInt(7)>>)),
   PtrTo(TSlice(TInterface), VSlice(<< >>)),
   PtrTo(TSlice(TInterface), VSlice(<<VX, VX>>)),
   PtrTo(TSlice(TString), VSlice(<<VX, VX, VX, VX>>)),
   PtrTo(TSlice(TMap), VSlice(<< >>))}

InitArray == InitWith(ArraySources, {"EOF"}, SequenceDests)

SpecArray == InitArray /\ [][Next]_vars

\* arrays after optional whitespace; open is the position just after the '['
LedArraySources ==
  { Source(e[1] \o ArrayText(e[2], << >>),
           [kind |-> "array", items |-> e[2], open |-> Len(e[1]) + 1,
            end |-> Len(e[1]) + Len(ArrayText(e[2], << >>))]) :
      e \in {<< >>, <<" ">>, <<"\n", "\t">>} \X SeqsUpTo(ElemItems, MaxElems) }

InitFlat == InitWith(LedArraySources, {"EOF"}, HeldDests \cup {FreshDynamic})

SpecFlat == InitFlat /\ [][Next]_vars

----------------------------------------------------------------------------
(* String and bool literals, written with the value they denote *)

Literal(what, text, val) == [what |-> what, text |-> text, val |-> val]

StringLiterals ==
  {Literal("string", Quoted(<< >>), VString(<< >>)),
   Literal("string", Quoted(<<"a">>), VString(<<"a">>)),
   Literal("string", Quoted(<<"a", "b">>), VString(<<"a", "b">>)),
   Literal("string", Quoted(<<"a", "\\", "n", "b">>), VString(<<"a", "\n", "b">>)),
   Literal("string", Quoted(<<"\\", "\"", "\\", "\\">>), VString(<<"\"", "\\">>)),
   Literal("string", Quoted(<<"1", " ", "[">>), VString(<<"1", " ", "[">>))}

BoolLiterals ==
  {Literal("bool", <<"t", "r", "u", "e">>, VBool(TRUE)),
   Literal("bool", <<"f", "a", "l", "s", "e">>, VBool(FALSE))}

\* end is the position just after the literal
ScalarSources ==
  { Source(e[1] \o e[2].text \o e[3],
           [kind |-> "scalar", lit |-> e[2], end |-> Len(e[1]) + Len(e[2].text)]) :
      e \in {<< >>, <<" ">>} \X (StringLiterals \cup BoolLiterals)
              \X {<< >>, <<",">>, <<" ">>} }

InitScalar ==
  InitWith(ScalarSources, {"EOF"},
           HeldDests \cup HeldDynamicDests \cup {PtrTo(TBool, VBool(FALSE))})

SpecScalar == InitScalar /\ [][Next]_vars

----------------------------------------------------------------------------
(* Objects with a byte other than '"' where a key starts; at is its position *)

KeyBytes == {"1", "-", "t", "f", "n", "[", "{", ":", ",", "a"}

BadFirstKey(ws, x, rest) ==
  Source(<<"{">> \o ws \o <<x>> \o rest,
         [kind |-> "badKey", second |-> FALSE, at |-> Len(ws) + 2])

BadSecondKey(ws, x, rest) ==
  Source(<<"{">> \o Quoted(<<"a">>) \o <<":", "1", ",">> \o ws \o <<x>> \o rest,
         [kind |-> "badKey", second |-> TRUE, at |-> Len(ws) + 8])

BadKeySources ==
  { BadFirstKey(e[1], e[2], e[3]) :
      e \in {<< >>, <<" ">>, <<"\t", "\n">>} \X KeyBytes \X {<< >>, <<":", "1", "}">>} }
  \cup
  { BadSecondKey(e[1], e[2], e[3]) :
      e \in {<< >>, <<" ">>, <<"\t", "\n">>} \X (KeyBytes \cup {"}"})
              \X {<< >>, <<":", "1", "}">>} }

InitKey == InitWith(BadKeySources, {"EOF"}, HeldDests \cup HeldDynamicDests)

SpecKey == InitKey /\ [][Next]_vars

----------------------------------------------------------------------------
(* Objects of up to MaxPairs key:value pairs over two keys *)

MaxPairs == 3

Pair(key, item) == [key |-> key, item |-> item]

PairItems == {ItemOne, ItemTwo, ItemString, ItemNull}

\* '{' "k1" ':' v1 ',' "k2" ':' v2 ... '}'
ObjectText(pairs) ==
  <<"{">>
    \o Flatten([i \in 1..Len(pairs) |->
                  (IF i = 1 THEN << >> ELSE <<",">>)
                    \o Quoted(pairs[i].key) \o <<":">> \o pairs[i].item.text])
    \o <<"}">>

ObjectSources ==
  { Source(ObjectText(ps), [kind |-> "object", pairs |-> ps]) :
      ps \in SeqsUpTo({Pair(k, v) : k \in {<<"a">>, <<"b">>}, v \in PairItems}, MaxPairs) }

InitObject == InitWith(ObjectSources, {"EOF"}, {FreshDynamic, PtrTo(TInterface, VX)})

SpecObject == InitObject /\ [][Next]_vars

----------------------------------------------------------------------------
(* String literals over a small alphabet, with the result the grammar gives  *)
(* them: the decoded string, a syntax error at a byte, or no closing quote    *)

MaxStr == 3

StrBytes == {"a", "n", "u", "\\", "\"", "\n", BS}

ControlBytes == {BS, "\f", "\n", "\r", "\t"}

EscapeByte(c) ==
  CASE c = "n" -> "\n"
    [] c = "r" -> "\r"
    [] c = "t" -> "\t"
    [] c = "b" -> BS
    [] c = "f" -> "\f"
    [] c = "\\" -> "\\"
    [] c = "\"" -> "\""

RECURSIVE RefString(_, _, _)
\* t: the bytes after the opening quote, i: the byte looked at, acc: the
\* string so far
RefString(t, i, acc) ==
  IF i > Len(t) THEN [res |-> "open"]
  ELSE IF t[i] = "\"" THEN [res |-> "value", s |-> acc]
  ELSE IF t[i] = "\\"
    THEN (IF i + 1 > Len(t) THEN [res |-> "open"]
          ELSE IF t[i + 1] \in {"n", "r", "t", "b", "f", "\\", "\""}
            THEN RefString(t, i + 2, Append(acc, EscapeByte(t[i + 1])))
            ELSE [res |-> "syntax", at |-> i + 1])
  ELSE IF t[i] \in ControlBytes THEN [res |-> "syntax", at |-> i]
  ELSE RefString(t, i + 1, Append(acc, t[i]))

\* open is the position of the opening quote
StringSources ==
  { Source(e[1] \o <<"\"">> \o e[2] \o <<"\"">>,
           [kind |-> "stringBody", open |-> Len(e[1]) + 1,
            ref |-> RefString(e[2] \o <<"\"">>, 1, << >>)]) :
      e \in {<< >>, <<" ">>} \X SeqsUpTo(StrBytes, MaxStr) }

InitString == InitWith(StringSources, {"EOF"}, {FreshDynamic, PtrTo(TString, VX)})

SpecString == InitString /\ [][Next]_vars

-----------------------------------------------------------------------------
(* Sources that fail.  The reader delivers the bytes of a text that is not   *)
(* finished and then returns its own error, as the reader of                 *)
(* TestDecodeReadError does.                                                 *)

\* texts that end with a closing byte of their own
ClosedTexts ==
  {<<"n", "u", "l", "l">>, <<"t", "r", "u", "e">>, <<"f", "a", "l", "s", "e">>,
   Quoted(<<"a">>), Quoted(<<"\\", "n">>), Quoted(<<" ">>),
   <<"[">> \o Quoted(<<" ">>) \o <<"]">>, <<"[", "1", ",", "-", "2", ".", "5", "]">>,
   <<"{", " ", "}">>, ItemObject.text, ItemTwoPairs.text, AllSpace(ItemTwoPairs),
   <<"{">> \o Quoted(<<"a">>) \o <<":">> \o Quoted(<<"a">>) \o <<"}">>}

\* numbers, which only the byte after them ends
OpenNumbers ==
  {<<"0">>, <<"1", "0">>, <<"-", "1">>, <<"0", ".", "1", "e", "6">>,
   <<"0", ".", "1", "e", "-", "6">>, <<"-", "1", "2", ".", "5", "E", "+", "1">>}

\* the first n bytes of the text behind whitespace
Cut(ws, text, n, of) ==
  Source(ws \o SubSeq(text, 1, n), [kind |-> "cut", of |-> of, ws |-> Len(ws)])

CutSources ==
  UNION { { Cut(ws, t, n, "closed") : n \in 0..(Len(t) - 1) } :
            ws \in {<< >>, <<" ">>, <<"\n", " ">>}, t \in ClosedTexts }
  \cup UNION { { Cut(ws, t, n, "number") : n \in 1..Len(t) } :
                 ws \in {<< >>, <<" ">>}, t \in OpenNumbers }

InitCut == InitWith(CutSources, {"ERR"}, {FreshDynamic})

SpecCut == InitCut /\ [][Next]_vars

-----------------------------------------------------------------------------
(* Numbers with a fraction or an exponent, followed by a byte that cannot    *)
(* continue them.                                                            *)

HasExponent(lit) == \E i \in 1..Len(lit.text) : lit.text[i] \in {"e", "E"}

\* the bytes that cannot follow the last digit of the literal: a digit always
\* can, an exponent marker can when there is none yet
StopBytes(lit) ==
  {".", "-", "+", ",", " ", "]", "x"} \cup (IF HasExponent(lit) THEN {"e", "E"} ELSE {})

FloatEndSources ==
  UNION { { Source(lit.text \o <<c>> \o rest,
                   [kind |-> "floatEnd", lit |-> lit, stop |-> c]) :
              c \in StopBytes(lit), rest \in {<< >>, <<"2">>} } :
            lit \in FractionLiterals }

InitFloatEnd ==
  InitWith(FloatEndSources, {"EOF"},
           {FreshDynamic, PtrTo(TNum("Float64"), VFloat(Float(FALSE, 7, 0)))})

SpecFloatEnd == InitFloatEnd /\ [][Next]_vars

-----------------------------------------------------------------------------
(* Streams of values, unfinished texts and ended numbers, read by several    *)
(* calls from a source that ends or fails.                                   *)

MixedSources ==
  Streams({ItemOne, ItemMinusOne, ItemString, ItemArray, ItemObject},
          {<< >>, <<" ">>}, MaxVals)
    \cup CutSources \cup FloatEndSources

MixedDests ==
  {FreshDynamic, PtrTo(TNum("Int8"), VInt(7)), PtrTo(TString, VX), NilArg}

InitMixed == InitWith(MixedSources, {"EOF", "ERR"}, MixedDests)

SpecMixed == InitMixed /\ [][Next]_vars

-----------------------------------------------------------------------------
(* Texts with a byte that no grammar position accepts: after a minus sign,   *)
(* in a literal, after an element or a pair, at a key, in a string, in an    *)
(* exponent.                                                                 *)

\* a minus sign and then a byte that is not a digit
MinusSources ==
  { Source(e[1] \o <<"-", e[2]>> \o e[3],
           [kind |-> "minus", at |-> Len(e[1]) + 2, byte |-> e[2]]) :
      e \in {<< >>, <<" ">>, <<"[">>} \X {".", "e", "E", "x", "-", " ", "]", "\""}
              \X {<< >>, <<"5">>} }

\* true, false or null with one byte replaced
BadLiteralSources ==
  UNION { { Source([t EXCEPT ![i] = c], [kind |-> "badLiteral", at |-> i]) :
              i \in 2..Len(t), c \in {"x", "E", "\"", " "} } :
            t \in {<<"t", "r", "u", "e">>, <<"f", "a", "l", "s", "e">>,
                   <<"n", "u", "l", "l">>} }

RejectedSources ==
  MinusSources \cup BadLiteralSources \cup AfterElementSources \cup BadKeySources
    \cup StringSources \cup FloatEndSources

InitRejected == InitWith(RejectedSources, {"EOF"}, {FreshDynamic, PtrTo(TString, VX)})

SpecRejected == InitRejected /\ [][Next]_vars

-----------------------------------------------------------------------------
(* Texts that fail, decoded into a dynamic destination that holds a value.   *)

DynamicHolding ==
  {FreshDynamic,
   PtrTo(TInterface, VX),
   PtrTo(TInterface, VSlice(<<VX, VBool(TRUE)>>)),
   PtrTo(TInterface, VMap([k \in {<<"a">>} |-> F1]))}

InitFailing ==
  InitWith(RejectedSources \cup CutSources \cup TruncatedSources, {"EOF", "ERR"},
           DynamicHolding)

SpecFailing == InitFailing /\ [][Next]_vars

-----------------------------------------------------------------------------
(* Arrays into fixed-capacity destinations whose slots hold different values *)

FixedDests ==
  {PtrTo(TArray(3, TNum("Int")), VArray(<<VInt(7), VInt(8), VInt(9)>>)),
   PtrTo(TArray(3, TInterface), VArray(<<VX, VBool(TRUE), VFloat(Float(FALSE, 7, 0))>>)),
   PtrTo(TArray(2, TString), VArray(<<VX, VString(<<"y">>)>>))}

InitFixed == InitWith(ArraySources, {"EOF"}, FixedDests)

SpecFixed == InitFixed /\ [][Next]_vars

----------------------------------------------------------------------------
(* Claims *)

Called == last.op = "Decode"

\* C1: Decode with nil, a non-pointer or a nil pointer returns an
\* InvalidUnmarshalError naming the argument's type and consumes no byte: the
\* decoder (cursor, offset, accounting of reads) is as it was before the call,
\* so the next Decode reads the byte this call would have read.
C1_InvalidDestinationReadsNothing ==
  (Called /\ last.dest.how # "pointer") =>
    /\ last.err = InvalidUnmarshalError(last.dest.t)
    /\ dec = last.before
    /\ last.val = last.dest.val

\* an invalid call made after an earlier call consumed bytes, with bytes left
C1_Witness ==
  /\ Called /\ last.dest.how # "pointer"
  /\ last.err.kind = "InvalidUnmarshalError"
  /\ ncalls = 2 /\ dec.pos > 0 /\ dec.pos < Len(in)

\* C2: on a stream of k values separated by zero or more whitespace bytes, the
\* i-th Decode into a fresh dynamic destination returns no error and the i-th
\* value, and the (k+1)-th returns io.EOF.
C2_StreamOfValues ==
  (shape.kind = "values" /\ srcEnd = "EOF" /\ allDyn /\ Called) =>
    IF ncalls <= Len(shape.vals)
      THEN last.err = NoErr /\ last.val = shape.vals[ncalls]
      ELSE ncalls = Len(shape.vals) + 1 => last.err = ErrEOF

\* C2 holds of every stream in which no number 0 is directly followed by a digit
C2_ExceptZeroThenDigit == shape.zeroThenDigit \/ C2_StreamOfValues

\* the first Decode of a stream of values has returned
First == Called /\ shape.kind = "values" /\ ncalls = 1 /\ Len(shape.vals) >= 1

\* C3: decoding a valid JSON object, {} included, into a *map[string]interface{}
\* returns no error and leaves the map holding exactly the parsed pairs.
C3_ObjectIntoMap ==
  (First /\ shape.vals[1].k = "map" /\ last.dest.how = "pointer" /\ last.dest.t = TMap) =>
    /\ last.err = NoErr
    /\ last.val = shape.vals[1]

ScalarOrSequence == {"Bool", "String", "Array", "Slice"} \cup IntKinds \cup UintKinds \cup FloatKinds

\* the destination slot an object of the first value is decoded into is of a
\* kind that takes no object: the destination itself, or the elements of a
\* sequence destination when the object is the first element of an array
ObjectIntoScalarOrSequence ==
  /\ First /\ last.dest.how = "pointer"
  /\ \/ shape.vals[1].k = "map" /\ last.dest.t.kind \in ScalarOrSequence
     \/ /\ shape.vals[1].k = "slice" /\ Len(shape.vals[1].a) >= 1
        /\ shape.vals[1].a[1].k = "map"
        /\ last.dest.t.kind \in {"Array", "Slice"}
        /\ last.dest.t.elem.kind \in ScalarOrSequence

\* C4: decoding a JSON object into a bool, string, integer, float, array or
\* slice destination, at top level or as an array element, returns an
\* UnmarshalTypeError; it never succeeds and never panics.
C4_ObjectIntoScalarIsTypeError ==
  ObjectIntoScalarOrSequence => last.err.kind = "UnmarshalTypeError"

\* the first Decode of the decoder has returned, and it was given a fresh
\* dynamic destination
FirstDynamic == Called /\ ncalls = 1 /\ last.dest = FreshDynamic

\* C5: inside an array after a complete element, and inside an object after a
\* complete key:value pair, every byte other than whitespace, ',' and the
\* closer makes Decode return a SyntaxError; an opening '[' (resp. '{') is not
\* accepted as a separator.
C5_ByteAfterElementIsSyntaxError ==
  (FirstDynamic /\ shape.kind = "afterElement") => last.err.kind = "SyntaxError"

\* C5 holds of every byte but the opener of the enclosing array or object
C5_ExceptOpener ==
  (FirstDynamic /\ shape.kind = "afterElement"
     /\ shape.byte # (IF shape.in = "array" THEN "[" ELSE "{")) =>
    last.err = syntaxErrorf(dec,
                 IF shape.in = "array" THEN "invalid character %q after array element"
                 ELSE "invalid character %q after object key:value pair",
                 <<shape.byte>>)

\* C6: runs of whitespace before or after the brackets, braces, commas and
\* colons of a valid array or object text do not change what it decodes to in a
\* dynamic destination; between the brackets of an empty array and the braces
\* of an empty object too.
C6_WhitespaceChangesNothing ==
  (FirstDynamic /\ shape.kind = "spaced") =>
    /\ last.err = NoErr
    /\ last.val = shape.val

\* the text without inserted whitespace decodes to the value of the item
C6_PlainText == (FirstDynamic /\ shape.kind = "spaced" /\ shape.plain) =>
                  (last.err = NoErr /\ last.val = shape.val)

\* C7: a source exhausted after an opening '[' or '{' and before its matching
\* closer makes Decode return io.ErrUnexpectedEOF, never io.EOF and never
\* success.
C7_TruncatedCompositeIsUnexpectedEOF ==
  (FirstDynamic /\ srcEnd = "EOF" /\ shape.kind = "truncated" /\ shape.of = "composite") =>
    last.err = ErrUnexpectedEOF

\* C8: a source exhausted after an opening quote and before the closing quote,
\* also right after a backslash, makes Decode return io.ErrUnexpectedEOF.
C8_TruncatedStringIsUnexpectedEOF ==
  (Called /\ ncalls = 1 /\ srcEnd = "EOF" /\ shape.kind = "truncated"
     /\ shape.of = "string" /\ last.dest.t.kind \in {"Interface", "String"}) =>
    last.err = ErrUnexpectedEOF

\* C8 holds of every truncated string that does not end in the backslash of an
\* escape
C8_ExceptAfterBackslash ==
  (Len(in) >= 1 /\ in[Len(in)] = "\\") \/ C8_TruncatedStringIsUnexpectedEOF

IsZero(val) ==
  \/ val.k = "float64" /\ val.f.mant = 0
  \/ val = VInt(0)

\* C9: a number whose integer part is 0 followed by another digit decodes to
\* zero with no error and consumes the bytes up to and including the 0 only:
\* the offset is the position after the 0 and the next Decode starts at the
\* digit.
C9_LeadingZeroStopsAfterZero ==
  (shape.kind = "leadingZero" /\ Called
     /\ last.dest.t.kind \in {"Interface", "Int", "Float64"}) =>
    /\ ncalls = 1 =>
         /\ last.err = NoErr
         /\ IsZero(last.val)
         /\ dec.offset = shape.zeroEnd
         /\ dec.pos = shape.zeroEnd
    /\ (ncalls = 2 /\ allDyn) =>
         /\ last.before.pos = shape.zeroEnd
         /\ last.err = NoErr
         /\ last.val = shape.next

\* C10: Decode never returns success for a number in which a '.' or an
\* exponent marker with its optional sign is not followed by a digit.
C10_DigitsAfterPointAndExponent ==
  (Called /\ ncalls = 1 /\ last.dest.how = "pointer"
     /\ shape.kind = "badNumber" /\ ~shape.nested) =>
    last.err # NoErr

\* an array whose element is such a number is not decoded with success either
C10_InArray ==
  (Called /\ ncalls = 1 /\ last.dest.how = "pointer"
     /\ shape.kind = "badNumber" /\ shape.nested) =>
    last.err # NoErr

\* the first Decode has returned and the source holds a number literal
FirstNumber ==
  Called /\ ncalls = 1 /\ last.dest.how = "pointer" /\ shape.kind = "number"

\* the integer a plain literal denotes
IntegerOf(lit) == IF lit.neg THEN 0 - lit.mant * Pow10(lit.exp) ELSE lit.mant * Pow10(lit.exp)

\* the integer n converted to a destination kind: the value of that kind's
\* range that differs from n by a multiple of 2^width
Narrowed(kind, n) ==
  IF Bits(kind) > 16 THEN n
  ELSE CHOOSE x \in (IF kind \in UintKinds THEN 0..(Pow2(Bits(kind)) - 1)
                     ELSE (0 - Pow2(Bits(kind) - 1))..(Pow2(Bits(kind) - 1) - 1)) :
         (x - n) % Pow2(Bits(kind)) = 0

\* C11 as stated: a literal without fraction and exponent, with or without a
\* leading '-', decoded into an integer destination of any width and
\* signedness succeeds with the truncating conversion of the value and never
\* returns an UnmarshalTypeError.
C11_PlainIntoAnyInteger ==
  (FirstNumber /\ shape.lit.plain /\ last.dest.t.kind \in IntKinds \cup UintKinds) =>
    /\ last.err = NoErr
    /\ last.val = VInt(Narrowed(last.dest.t.kind, IntegerOf(shape.lit)))

\* C11 as amended: the same, for every literal and integer destination but a
\* literal with a leading '-' into an unsigned destination.
C11_PlainIntoInteger ==
  (FirstNumber /\ shape.lit.plain /\ last.dest.t.kind \in IntKinds \cup UintKinds
     /\ ~(shape.lit.neg /\ last.dest.t.kind \in UintKinds)) =>
    /\ last.err = NoErr
    /\ last.val = VInt(Narrowed(last.dest.t.kind, IntegerOf(shape.lit)))

C11_Witness ==
  /\ FirstNumber /\ shape.lit.plain /\ shape.lit.neg
  /\ last.dest.t.kind = "Int8"
  /\ last.val = VInt(56)

\* the double a literal denotes
DoubleOf(lit) == VFloat(Float(lit.neg, lit.mant, lit.exp))

\* the UnmarshalTypeError of a number: Value is "number " and the literal
TypeErrorOfNumber(err, lit, t) ==
  /\ err.kind = "UnmarshalTypeError"
  /\ err.value = <<"number ">> \o lit.text
  /\ err.t = t

\* C12: a negative literal -N without fraction and exponent decoded into an
\* unsigned destination of any width returns an UnmarshalTypeError whose Value
\* is "number -N" and whose Type is the destination's, and leaves the
\* destination unchanged; into a signed or float destination it succeeds.
C12_NegativeIntoUnsigned ==
  (FirstNumber /\ shape.lit.plain /\ shape.lit.neg) =>
    /\ last.dest.t.kind \in UintKinds =>
         /\ TypeErrorOfNumber(last.err, shape.lit, last.dest.t)
         /\ last.val = last.dest.val
    /\ last.dest.t.kind \in IntKinds =>
         /\ last.err = NoErr
         /\ last.val = VInt(Narrowed(last.dest.t.kind, IntegerOf(shape.lit)))
    /\ last.dest.t.kind \in FloatKinds =>
         /\ last.err = NoErr
         /\ last.val = DoubleOf(shape.lit)

C12_Witness ==
  /\ FirstNumber /\ shape.lit.text = <<"-", "1", "2">>
  /\ last.dest.t.kind = "Uint16"
  /\ last.err.kind = "UnmarshalTypeError"
  /\ last.val = VInt(7)

FirstNull == Called /\ ncalls = 1 /\ last.dest.how = "pointer" /\ shape.kind = "null"

\* C14: after a successful Decode of null into a dynamic destination the
\* destination holds nil, whatever it held before; so does a dynamic slot that
\* is an existing element of a sequence destination.
C14_NullSetsDynamicToNil ==
  (FirstNull /\ last.err = NoErr) =>
    /\ (shape.form = "top" /\ last.dest.t = TInterface) => last.val = Nil
    /\ (shape.form = "element" /\ last.dest.t.kind \in {"Slice", "Array"}
          /\ last.dest.t.elem = TInterface) => last.val.a[1] = Nil

\* a fresh dynamic destination, which holds nil before the call, holds nil after
C14_FreshStaysNil ==
  (FirstNull /\ last.err = NoErr /\ shape.form = "top" /\ last.dest = FreshDynamic) =>
    last.val = Nil

\* C15: null decoded into a bool, string, integer, float, sequence or mapping
\* destination returns no error and leaves the destination's value as it was.
C15_NullLeavesDestination ==
  (FirstNull /\ shape.form = "top" /\ last.dest.t # TInterface) =>
    /\ last.err = NoErr
    /\ last.val = last.dest.val

C15_Witness ==
  /\ FirstNull /\ shape.form = "top"
  /\ last.dest.t = TMap
  /\ last.err = NoErr
  /\ last.val = VMap([k \in {<<"a">>} |-> F1])
  /\ dec.pos > 4

\* the first Decode has returned and the source holds an array
FirstArray == Called /\ ncalls = 1 /\ last.dest.how = "pointer" /\ shape.kind = "array"

\* a slot of type t takes the element: null goes anywhere, a number into an
\* integer, a string into a string, an object into a mapping, all into dynamic
Compatible(t, item) ==
  \/ item.val = Nil
  \/ t = TInterface
  \/ t.kind \in IntKinds \cup UintKinds /\ IsNumber(item)
  \/ t.kind = "String" /\ item.val.k = "string"
  \/ t.kind = "Map" /\ item.val.k = "map"

\* what a slot of type t that held prior holds once the element is decoded
\* into it: nil in a dynamic slot and no change elsewhere for null, the
\* integer for a number in an integer slot, the value itself otherwise
Expected(t, item, prior) ==
  CASE item.val = Nil -> IF t = TInterface THEN Nil ELSE prior
    [] item.val # Nil /\ t.kind \in IntKinds \cup UintKinds -> VInt(item.val.f.mant)
    [] OTHER -> item.val

Min(a, b) == IF a <= b THEN a ELSE b

\* slot i of the destination before the call; a slice grows by zero values
PriorSlot(dest, i) == IF i <= Len(dest.val.a) THEN dest.val.a[i] ELSE Zero(dest.t.elem)

AllCompatible == \A i \in 1..Len(shape.items) : Compatible(last.dest.t.elem, shape.items[i])

\* C16: an array of n type-compatible elements decoded into a fixed-capacity
\* sequence of capacity k returns no error, writes the first min(n,k) parsed
\* values into slots 0..min(n,k)-1 in order, never changes the length, and
\* consumes the elements beyond capacity: the cursor ends after the ']'.
C16_ArrayIntoFixedCapacity ==
  (FirstArray /\ last.dest.t.kind = "Array" /\ AllCompatible) =>
    /\ last.err = NoErr
    /\ last.val.k = "array"
    /\ Len(last.val.a) = last.dest.t.len
    /\ \A i \in 1..Min(Len(shape.items), last.dest.t.len) :
         last.val.a[i] = Expected(last.dest.t.elem, shape.items[i], PriorSlot(last.dest, i))
    /\ dec.pos = shape.end
    /\ dec.offset = shape.end

\* an element the decoder does not store as the claims say: null into a
\* dynamic slot that holds a value (C14), an object into a mapping slot (C3)
Unstored(t, item, prior) ==
  \/ item.val = Nil /\ t = TInterface /\ prior # Nil
  \/ item.val.k = "map" /\ t.kind = "Map"

\* C16 holds of every array without such an element within capacity; elements
\* beyond capacity are read into a discarded dynamic slot
C16_ExceptUnstored ==
  (\E i \in 1..Len(shape.items) :
     /\ FirstArray /\ last.dest.t.kind = "Array"
     /\ Unstored(last.dest.t.elem, shape.items[i], PriorSlot(last.dest, i)))
  \/ C16_ArrayIntoFixedCapacity

\* C17: after a successful Decode of an array of n elements into a growable
\* sequence of any prior length, the destination's length is n and its i-th
\* element is the i-th parsed value; nothing of the prior content is left
\* beyond index n-1.
C17_ArrayIntoGrowable ==
  (FirstArray /\ last.dest.t.kind = "Slice" /\ last.err = NoErr) =>
    /\ last.val.k = "slice"
    /\ Len(last.val.a) = Len(shape.items)
    /\ \A i \in 1..Len(shape.items) :
         last.val.a[i] = Expected(last.dest.t.elem, shape.items[i], PriorSlot(last.dest, i))

\* C17 holds of every array without a null decoded into a dynamic slot that
\* holds a value
C17_ExceptUnstored ==
  (\E i \in 1..Len(shape.items) :
     /\ FirstArray /\ last.dest.t.kind = "Slice"
     /\ Unstored(last.dest.t.elem, shape.items[i], PriorSlot(last.dest, i)))
  \/ C17_ArrayIntoGrowable

\* arrays are decoded with success into growable destinations shorter than,
\* as long as and longer than the array
C17_Reached ==
  /\ FirstArray /\ last.dest.t.kind = "Slice" /\ last.err = NoErr
  /\ Len(shape.items) = 3 /\ Len(last.dest.val.a) = 4
  /\ last.val = VSlice(<<VInt(1), VInt(2), VInt(1)>>)

\* C18: when the value starts with '[' and the destination is neither dynamic
\* nor a fixed-capacity nor a growable sequence, Decode returns an
\* UnmarshalTypeError with Value "array" at once: its offset is the position
\* just after the '[', no byte of an element is consumed and the destination is
\* unchanged.
C18_ArrayIntoFlatFailsFast ==
  (FirstArray /\ last.dest.t.kind \notin {"Interface", "Slice", "Array"}) =>
    /\ last.err.kind = "UnmarshalTypeError"
    /\ last.err.value = <<"array">>
    /\ last.err.t = last.dest.t
    /\ last.err.offset = shape.open
    /\ dec.offset = shape.open
    /\ dec.pos = shape.open
    /\ last.val = last.dest.val

C18_Witness ==
  /\ FirstArray /\ last.dest.t = TMap
  /\ Len(shape.items) = 2 /\ shape.open = 3
  /\ last.err.kind = "UnmarshalTypeError"
  /\ dec.pos = 3

\* the first Decode has returned and the source holds a string or bool literal
FirstScalar == Called /\ ncalls = 1 /\ last.dest.how = "pointer" /\ shape.kind = "scalar"

\* the destination kind named like the literal
KindOf(what) == IF what = "string" THEN "String" ELSE "Bool"

\* C19: a well-formed string literal commits into a dynamic or string
\* destination only; into any other kind Decode returns an UnmarshalTypeError
\* with Value "string" whose offset is the position just after the closing
\* quote, and the destination is unchanged.  A true/false literal commits into
\* a dynamic or bool destination only and otherwise returns an
\* UnmarshalTypeError with Value "bool".
C19_StringAndBoolCommit ==
  FirstScalar =>
    IF last.dest.t.kind \in {"Interface", KindOf(shape.lit.what)}
      THEN /\ last.err = NoErr
           /\ last.val = shape.lit.val
      ELSE /\ last.err.kind = "UnmarshalTypeError"
           /\ last.err.value = <<shape.lit.what>>
           /\ last.err.t = last.dest.t
           /\ last.err.offset = shape.end
           /\ last.val = last.dest.val

C19_Witness ==
  /\ FirstScalar /\ shape.lit.what = "bool" /\ shape.lit.val = VBool(FALSE)
  /\ last.dest.t = TString
  /\ last.err.kind = "UnmarshalTypeError"
  /\ last.err.offset = 6
  /\ last.val = VX

\* a string literal with escapes is rejected by a sequence destination too
C19_StringReached ==
  /\ FirstScalar /\ shape.lit.val = VString(<<"a", "\n", "b">>)
  /\ last.dest.t.kind = "Slice"
  /\ last.err.kind = "UnmarshalTypeError"
  /\ last.err.value = <<"string">>

\* the first Decode has returned and the source holds an object with a byte
\* other than a double quote at a key position
FirstBadKey == Called /\ ncalls = 1 /\ last.dest.how = "pointer" /\ shape.kind = "badKey"

\* C20: inside an object, a first non-whitespace byte at a key position that
\* is not a double quote makes Decode return a SyntaxError at that byte's
\* offset, never an UnmarshalTypeError, whatever the destination's kind.
C20_NonStringKeyIsSyntaxError ==
  FirstBadKey =>
    /\ last.err.kind = "SyntaxError"
    /\ last.err.offset = shape.at

\* C20 holds at the first key of an object for every destination, and at a
\* later key for a dynamic destination
C20_FirstKeyOrDynamic ==
  (FirstBadKey /\ (~shape.second \/ last.dest.t = TInterface)) =>
    /\ last.err = syntaxErrorf(dec,
                    "invalid character %q looking for beginning of object key string",
                    <<in[shape.at]>>)
    /\ last.err.offset = shape.at

\* no such object ends in an UnmarshalTypeError
C20_NeverTypeError == FirstBadKey => last.err.kind # "UnmarshalTypeError"

\* the first Decode has returned and the source holds an object of pairs
FirstObject == Called /\ ncalls = 1 /\ last.dest.how = "pointer" /\ shape.kind = "object"

\* the index of the last pair of the object with the key
LastIndex(pairs, key) ==
  CHOOSE i \in 1..Len(pairs) :
    /\ pairs[i].key = key
    /\ \A j \in (i + 1)..Len(pairs) : pairs[j].key # key

\* C21: an object decoded into a dynamic destination that holds the same key
\* several times gives a mapping with one entry for the key, whose value is
\* the value of the key's last occurrence in the input.
C21_LastDuplicateKeyWins ==
  (FirstObject /\ last.dest.t = TInterface) =>
    /\ last.err = NoErr
    /\ last.val.k = "map"
    /\ DOMAIN last.val.m = {shape.pairs[i].key : i \in 1..Len(shape.pairs)}
    /\ \A key \in DOMAIN last.val.m :
         last.val.m[key] = shape.pairs[LastIndex(shape.pairs, key)].item.val

C21_Witness ==
  /\ FirstObject /\ last.dest.t = TInterface /\ last.err = NoErr
  /\ Len(shape.pairs) = 3
  /\ \A i \in 1..3 : shape.pairs[i].key = <<"a">>
  /\ shape.pairs[1].item = ItemOne /\ shape.pairs[3].item = ItemTwo
  /\ last.val = VMap([k \in {<<"a">>} |-> ItemTwo.val])

\* the first Decode has returned and the source holds a string literal
FirstString == Called /\ ncalls = 1 /\ last.dest.how = "pointer" /\ shape.kind = "stringBody"

\* C22: the decoded string of a literal is the reference result: each escape
\* \n \r \t \b \f \\ \" gives its byte, every other byte that is not a control
\* byte is copied, and the first raw control byte or unrecognised byte after a
\* backslash makes Decode return a SyntaxError whose offset is the 1-based
\* stream position of that byte.
C22_StringIsReferenceResult ==
  FirstString =>
    /\ shape.ref.res = "value" => (last.err = NoErr /\ last.val = VString(shape.ref.s))
    /\ shape.ref.res = "syntax" =>
         /\ last.err.kind = "SyntaxError"
         /\ last.err.offset = shape.open + shape.ref.at
         /\ in[last.err.offset] \in ControlBytes
              \/ (in[last.err.offset - 1] = "\\" /\ in[last.err.offset] \in {"a", "u"})

C22_Witness ==
  /\ FirstString /\ shape.open = 2
  /\ shape.ref.res = "value" /\ shape.ref.s = <<"\n", "a">>
  /\ last.val = VString(<<"\n", "a">>)

\* a raw control byte after an escape is rejected at its own position
C22_SyntaxReached ==
  /\ FirstString /\ shape.open = 2
  /\ in = <<" ", "\"", "\\", "n", "\n", "\"">>
  /\ last.err.kind = "SyntaxError" /\ last.err.offset = 5

\* C23: when the source returns an error of its own at a read of a Decode
\* call (the first read, in whitespace, in a string or escape, in a literal,
\* in or right after the digits of a number, in an array or object), Decode
\* returns exactly that error, not UnexpectedEOF and not success.
C23_SourceErrorPropagates ==
  (Called /\ shape.kind = "cut" /\ srcEnd = "ERR") => last.err = ErrSource

\* the source fails right after the digits of a number in an object
C23_Witness ==
  /\ Called /\ ncalls = 1 /\ shape.kind = "cut" /\ srcEnd = "ERR"
  /\ in = <<"{", "\"", "a", "\"", ":", "1">>
  /\ last.before.pos = 0 /\ dec.pos = 6
  /\ last.err = ErrSource

\* the source fails after an exponent sign
C23_ExponentReached ==
  /\ Called /\ ncalls = 1 /\ shape.kind = "cut"
  /\ in = <<" ", "0", ".", "1", "e", "-">>
  /\ dec.pos = 6 /\ last.err = ErrSource

\* the first Decode has returned and the source holds a number with a fraction
\* or an exponent and then a byte that cannot continue it
FirstFloatEnd ==
  Called /\ ncalls = 1 /\ last.dest.how = "pointer" /\ shape.kind = "floatEnd"

\* the literal was committed and the byte after it is the next one to be read
EndsBeforeStop ==
  /\ last.err = NoErr
  /\ last.val = DoubleOf(shape.lit)
  /\ dec.pos = Len(shape.lit.text)
  /\ dec.offset = Len(shape.lit.text)
  /\ in[dec.pos + 1] = shape.stop

\* C24: in a number with a fraction or an exponent, the first byte that is not
\* allowed where it stands (a second '.', a second exponent marker, a sign
\* that does not follow the exponent marker, any other non-digit) ends the
\* literal: it is pushed back, it is the next byte read, and the value of the
\* bytes before it is committed (1.5-2 gives 1.5 with '-' unread).
C24_DisallowedByteEndsFloat == FirstFloatEnd => EndsBeforeStop

\* apart from a sign and an exponent marker, every such byte ends the literal
C24_ExceptSignOrMarker ==
  (FirstFloatEnd /\ shape.stop \notin {"-", "+", "e", "E"}) => EndsBeforeStop

C24_ExceptReached ==
  /\ FirstFloatEnd /\ shape.stop = "." /\ in = <<"1", ".", "2", ".", "2">>
  /\ EndsBeforeStop

\* C25: in every state of a decoder, over any sequence of Decode calls, offset
\* is the number of successful reads minus the number of pushbacks, which is
\* the stream index of the next unread byte; a read that fails with EOF or
\* with an error of the source leaves offset as it is; offset is never
\* negative.
C25_OffsetIsCursor ==
  /\ dec.offset = dec.reads - dec.unreads
  /\ dec.offset = dec.pos
  /\ dec.offset >= 0
  /\ (Called /\ last.dest.how = "pointer" /\ last.before.pos = Len(in)) =>
       (last.err \in {ErrEOF, ErrSource} /\ dec.offset = last.before.offset)

\* two values read with a pushback, then a read that fails
C25_Witness ==
  /\ Called /\ ncalls = 3 /\ last.dest = FreshDynamic
  /\ in = <<"1", " ", "\"", "a", "\"">>
  /\ dec.unreads = 1 /\ dec.reads = 6 /\ dec.offset = 5
  /\ last.before.offset = 5 /\ last.err = ErrSource

\* the byte a SyntaxError's message names: the first argument of its format,
\* or the '.' that the one format without arguments spells out
QuotedByte(err) ==
  IF Len(err.msg) > 1 THEN err.msg[2]
  ELSE IF err.msg[1] = "invalid character '.' in numeric literal" THEN "."
  ELSE ""

\* C26: the message of every SyntaxError raised for an unexpected byte quotes
\* the byte that was read at the offset the error reports, as the reference
\* decoder's message does; so after '-' directly followed by 'e' or 'E' the
\* message names that byte and not '.'.
C26_MessageQuotesByteRead ==
  (Called /\ last.err.kind = "SyntaxError") =>
    /\ last.err.offset \in 1..Len(in)
    /\ QuotedByte(last.err) = in[last.err.offset]

\* every SyntaxError but the one of readInt's fixed message quotes the byte read
C26_ExceptFixedMessage ==
  (Called /\ last.err.kind = "SyntaxError" /\ Len(last.err.msg) > 1) =>
    /\ last.err.offset \in 1..Len(in)
    /\ QuotedByte(last.err) = in[last.err.offset]

C26_ExceptReached ==
  /\ Called /\ ncalls = 1 /\ shape.kind = "minus" /\ shape.byte = "x"
  /\ last.err = [kind |-> "SyntaxError", offset |-> shape.at,
                 msg |-> <<"invalid character %q in numeric literal", "x">>]

\* C27: when Decode into a top-level dynamic destination returns an error (a
\* SyntaxError, UnexpectedEOF, EOF or an error of the source), the destination
\* holds the value it held before the call: arrays and objects are built in a
\* container of their own and stored after the closing bracket, so no part of
\* them shows in the destination.
C27_ErrorKeepsDynamicDestination ==
  (Called /\ last.dest \in DynamicHolding /\ last.err # NoErr) =>
    last.val = last.dest.val

\* an array that ends after its second element, into a destination that holds a
\* slice
C27_Witness ==
  /\ Called /\ ncalls = 1
  /\ in = <<"[", "1", ",", "-", "2", ".", "5">>
  /\ last.dest = PtrTo(TInterface, VSlice(<<VX, VBool(TRUE)>>))
  /\ dec.pos = 7 /\ last.err = ErrUnexpectedEOF
  /\ last.val = VSlice(<<VX, VBool(TRUE)>>)

\* an object rejected after its first pair
C27_ObjectReached ==
  /\ Called /\ ncalls = 1 /\ shape.kind = "badKey" /\ shape.second
  /\ last.dest = PtrTo(TInterface, VX)
  /\ last.err.kind = "SyntaxError" /\ last.val = VX

\* the bytes not yet consumed when the last call started
Remaining == Len(in) - last.before.pos

\* the numbers that start in the bytes after position from: a digit or a minus
\* sign that does not continue a number
NumbersAfter(from) ==
  Cardinality({ i \in (from + 1)..Len(in) :
                  /\ in[i] \in Digits \cup {"-"}
                  /\ (i = from + 1
                        \/ in[i - 1] \notin Digits \cup {"-", "+", ".", "e", "E"}) })

C29_SlotsBeyondElementsKept ==
  (FirstArray /\ last.dest.t.kind = "Array" /\ Len(shape.items) < last.dest.t.len) =>
    /\ last.val.k = "array"
    /\ Len(last.val.a) = last.dest.t.len
    /\ \A j \in (Len(shape.items) + 1)..last.dest.t.len :
         last.val.a[j] = last.dest.val.a[j]

\* one element into three slots
C29_Witness ==
  /\ FirstArray /\ in = <<"[", "1", "]">>
  /\ last.dest = PtrTo(TArray(3, TNum("Int")), VArray(<<VInt(7), VInt(8), VInt(9)>>))
  /\ last.err = NoErr
  /\ last.val = VArray(<<VInt(1), VInt(8), VInt(9)>>)

\* C30: in every call of Decode each unreadByte comes right after a readByte
\* of the same decoder that returned a byte, with no unreadByte in between, and
\* none comes before the first such read; so the buffered reader never refuses
\* the pushback and unreadByte never returns an error.
C30_PushbackFollowsRead ==
  Called =>
    /\ last.err # ErrInvalidUnreadByte
    /\ dec.unreads <= dec.reads
    /\ dec.unreads > last.before.unreads =>
         /\ dec.reads - last.before.reads > dec.unreads - last.before.unreads
         /\ last.before.pos < Len(in)

\* a negative number ended by the space after it: three reads, one pushback
C30_Witness ==
  /\ Called /\ ncalls = 1 /\ last.dest = FreshDynamic
  /\ in = <<"-", "1", " ", "\"", "a", "\"">>
  /\ dec.reads = 3 /\ dec.unreads = 1 /\ dec.pos = 2 /\ ~dec.lastByte
  /\ last.err = NoErr /\ last.val = VFloat(Float(TRUE, 1, 0))

====
